---- MODULE Spec2Model ----
(***************************************************************************)
(* Model of uncompyle3's bytecode scanner (scanner/scanner.py): the        *)
(* Scanner object, its derived tables and the passes of tokenize().        *)
(* Offsets are 0-based as in the source; the byte buffer and the tables    *)
(* are TLA+ sequences, read through At, which indexes as Python does.      *)
(***************************************************************************)
EXTENDS Integers, Sequences, FiniteSets, TLC

VARIABLES calls, cur, scanners, pc, offset, targets, returned

vars == <<calls, cur, scanners, pc, offset, targets, returned>>

(***************************************************************************)
(* Opcode numbers and the opcode metadata tables (dis.opmap and friends).  *)
(***************************************************************************)
POP_TOP == 1
ROT_TWO == 2
STORE_SUBSCR == 60
DELETE_SUBSCR == 61
PRINT_EXPR == 70
BREAK_LOOP == 80
RETURN_VALUE == 83
POP_BLOCK == 87
END_FINALLY == 88
HAVE_ARGUMENT == 90
STORE_NAME == 90
DELETE_NAME == 91
UNPACK_SEQUENCE == 92
FOR_ITER == 93
STORE_ATTR == 95
DELETE_ATTR == 96
STORE_GLOBAL == 97
DELETE_GLOBAL == 98
LOAD_CONST == 100
LOAD_NAME == 101
COMPARE_OP == 107
JUMP_FORWARD == 110
JUMP_IF_FALSE_OR_POP == 111
JUMP_IF_TRUE_OR_POP == 112
JUMP_ABSOLUTE == 113
POP_JUMP_IF_FALSE == 114
POP_JUMP_IF_TRUE == 115
CONTINUE_LOOP == 119
SETUP_LOOP == 120
SETUP_EXCEPT == 121
SETUP_FINALLY == 122
LOAD_FAST == 124
STORE_FAST == 125
DELETE_FAST == 126
RAISE_VARARGS == 130
LOAD_DEREF == 136
STORE_DEREF == 137
SETUP_WITH == 143
EXTENDED_ARG == 144
LIST_APPEND == 145

hasconst == {LOAD_CONST}
hasname == {STORE_NAME, DELETE_NAME, STORE_ATTR, DELETE_ATTR, STORE_GLOBAL,
            DELETE_GLOBAL, LOAD_NAME}
hasjrel == {FOR_ITER, JUMP_FORWARD, SETUP_LOOP, SETUP_EXCEPT, SETUP_FINALLY,
            SETUP_WITH}
hasjabs == {JUMP_IF_FALSE_OR_POP, JUMP_IF_TRUE_OR_POP, JUMP_ABSOLUTE,
            POP_JUMP_IF_FALSE, POP_JUMP_IF_TRUE, CONTINUE_LOOP}
haslocal == {LOAD_FAST, STORE_FAST, DELETE_FAST}
hascompare == {COMPARE_OP}
hasfree == {LOAD_DEREF, STORE_DEREF}

opname(op) ==
  CASE op = POP_TOP -> "POP_TOP"
    [] op = ROT_TWO -> "ROT_TWO"
    [] op = RETURN_VALUE -> "RETURN_VALUE"
    [] op = POP_BLOCK -> "POP_BLOCK"
    [] op = END_FINALLY -> "END_FINALLY"
    [] op = STORE_NAME -> "STORE_NAME"
    [] op = FOR_ITER -> "FOR_ITER"
    [] op = LOAD_CONST -> "LOAD_CONST"
    [] op = LOAD_NAME -> "LOAD_NAME"
    [] op = COMPARE_OP -> "COMPARE_OP"
    [] op = JUMP_FORWARD -> "JUMP_FORWARD"
    [] op = JUMP_IF_FALSE_OR_POP -> "JUMP_IF_FALSE_OR_POP"
    [] op = JUMP_IF_TRUE_OR_POP -> "JUMP_IF_TRUE_OR_POP"
    [] op = JUMP_ABSOLUTE -> "JUMP_ABSOLUTE"
    [] op = POP_JUMP_IF_FALSE -> "POP_JUMP_IF_FALSE"
    [] op = POP_JUMP_IF_TRUE -> "POP_JUMP_IF_TRUE"
    [] op = SETUP_LOOP -> "SETUP_LOOP"
    [] op = LOAD_FAST -> "LOAD_FAST"
    [] op = STORE_FAST -> "STORE_FAST"
    [] op = LOAD_DEREF -> "LOAD_DEREF"
    [] op = EXTENDED_ARG -> "EXTENDED_ARG"
    [] op = LIST_APPEND -> "LIST_APPEND"
    [] OTHER -> "<0>"

(***************************************************************************)
(* Python values and containers.                                           *)
(***************************************************************************)
\* The absent value: dict.get() of a missing key, a default argument.
None == -2

\* seq[i] of a Python list: 0-based, a negative index counts from the end.
At(seq, i) == IF i >= 0 THEN seq[i + 1] ELSE seq[Len(seq) + i + 1]

EmptyDict == [k \in {} |-> 0]

\* d[k] = v
DictSet(d, k, v) == [x \in DOMAIN d \cup {k} |-> IF x = k THEN v ELSE d[x]]

\* d.get(k)
DictGet(d, k) == IF k \in DOMAIN d THEN d[k] ELSE None

DictValues(d) == {d[k] : k \in DOMAIN d}

Digit(d) == <<"0", "1", "2", "3", "4", "5", "6", "7", "8", "9">>[d + 1]

RECURSIVE DecStr(_)
\* repr() / str() of a non-negative int: its decimal digits.
DecStr(n) == IF n < 10 THEN <<Digit(n)>> ELSE DecStr(n \div 10) \o <<Digit(n % 10)>>

PyInt(n) == [t |-> "int", s |-> DecStr(n)]
PyStr(s) == [t |-> "str", s |-> s]
PyNone == [t |-> "None", s |-> <<>>]

\* '{}_fake'.format(offset)
FakeLabel(o) == PyStr(DecStr(o) \o <<"_", "f", "a", "k", "e">>)

\* '{}_{}'.format(offset, jump_idx)
ComeFromLabel(o, k) == PyStr(DecStr(o) \o <<"_">> \o DecStr(k))

\* Token(type, attr, pattr, offset, linestart); a bare Token() leaves attr and
\* pattr None.
Token(type, attr, pattr, off, linestart) ==
  [type |-> type, attr |-> attr, pattr |-> pattr, offset |-> off,
   linestart |-> linestart]

(***************************************************************************)
(* The Scanner instance whose tokenize() is running, and its code unit.    *)
(***************************************************************************)
self == scanners[calls[cur].inst]
co == calls[cur].co
code == self.code
codelen == Len(code)

Rep(x, n) == [i \in 1 .. n |-> x]

op_size(op) == IF op < HAVE_ARGUMENT THEN 1 ELSE 3

RECURSIVE op_range(_, _)
\* The offsets the generator yields, in order.
op_range(start, end) ==
  IF start < end
    THEN <<start>> \o op_range(start + op_size(At(code, start)), end)
    ELSE <<>>

get_target(off) ==
  LET op == At(code, off)
      target == At(code, off + 1) + At(code, off + 2) * 256
  IN IF op \in hasjrel THEN target + off + 3 ELSE target

(***************************************************************************)
(* build_lines_data                                                        *)
(***************************************************************************)
RECURSIVE FillLines(_, _, _, _, _)
\* The loop over linestarts[1:] and the final fill; offset = Len(lines), and
\* clen is len(self.code).
FillLines(ls, k, prev_line_no, lines, clen) ==
  IF k > Len(ls)
    THEN lines \o Rep([l_no |-> prev_line_no, next |-> clen], clen - Len(lines))
    ELSE LET start_offset == ls[k][1]
             line_no == ls[k][2]
         IN FillLines(ls, k + 1, line_no,
                      lines \o Rep([l_no |-> prev_line_no, next |-> start_offset],
                                   start_offset - Len(lines)),
                      clen)

\* self.code is already the unit's buffer when tokenize calls this.
build_lines_data(code_obj) ==
  LET linestarts == code_obj.linestarts
  IN [linestarts |-> [o \in {linestarts[k][1] : k \in DOMAIN linestarts} |->
                        LET k == CHOOSE k \in DOMAIN linestarts :
                                   /\ linestarts[k][1] = o
                                   /\ \A m \in DOMAIN linestarts :
                                        linestarts[m][1] = o => m <= k
                        IN linestarts[k][2]],
      linestart_offsets |-> {linestarts[k][1] : k \in DOMAIN linestarts},
      lines |-> FillLines(linestarts, 2, linestarts[1][2], <<>>,
                         Len(code_obj.co_code))]

(***************************************************************************)
(* build_prev_op                                                           *)
(***************************************************************************)
RECURSIVE AppendPrevOp(_, _)
AppendPrevOp(prev_op, offs) ==
  IF offs = <<>>
    THEN prev_op
    ELSE AppendPrevOp(prev_op \o Rep(Head(offs), op_size(At(code, Head(offs)))),
                      Tail(offs))

\* A seed that keeps the table of the previous call.
PrevOpSeedStale == IF self.prev_op = <<>> THEN <<0>> ELSE self.prev_op

PrevOpSeed == <<0>>

\* The table without its leading 0: each byte maps to its own instruction.
build_prev_op_unseeded == AppendPrevOp(<<>>, op_range(0, codelen))

build_prev_op == AppendPrevOp(PrevOpSeed, op_range(0, codelen))

(***************************************************************************)
(* find_new_ifs                                                            *)
(***************************************************************************)
RECURSIVE InnerStop(_, _)
\* The inner loop: TRUE when it breaks with stop = True.
InnerStop(off, inner) ==
  IF inner = <<>>
    THEN FALSE
    ELSE LET inner_offset == Head(inner)
             inner_op == At(code, inner_offset)
         IN IF inner_op = JUMP_FORWARD
              THEN IF At(self.lines, get_target(inner_offset)).l_no
                        # At(self.lines, inner_offset).l_no
                     THEN TRUE
                     ELSE InnerStop(off, Tail(inner))
              ELSE IF inner_op = JUMP_ABSOLUTE
                     THEN IF get_target(inner_offset) < off
                            THEN TRUE
                            ELSE InnerStop(off, Tail(inner))
                     ELSE InnerStop(off, Tail(inner))

IsNewIf(off) ==
  /\ At(code, off) \in {POP_JUMP_IF_FALSE, POP_JUMP_IF_TRUE}
  /\ At(self.lines, off).l_no # At(self.lines, get_target(off)).l_no
  /\ ~InnerStop(off, op_range(off, get_target(off)))

RECURSIVE CollectNewIfs(_, _)
CollectNewIfs(new_ifs, offs) ==
  IF offs = <<>>
    THEN new_ifs
    ELSE CollectNewIfs(IF IsNewIf(Head(offs))
                         THEN DictSet(new_ifs, Head(offs), get_target(Head(offs)))
                         ELSE new_ifs,
                       Tail(offs))

find_new_ifs == CollectNewIfs(EmptyDict, op_range(0, codelen))

(***************************************************************************)
(* Search helpers: all_instr, last_instr, restrict_to_parent, rem_or,      *)
(* remove_mid_line_ifs.                                                    *)
(***************************************************************************)
RECURSIVE Filter(_, _)
\* [x for x in seq if x in keep], order kept.
Filter(seq, keep) ==
  IF seq = <<>>
    THEN <<>>
    ELSE (IF Head(seq) \in keep THEN <<Head(seq)>> ELSE <<>>)
           \o Filter(Tail(seq), keep)

Elems(seq) == {seq[k] : k \in DOMAIN seq}

InstrMatches(off, instr, target, include_beyond_target) ==
  /\ At(code, off) \in instr
  /\ \/ target = None
     \/ include_beyond_target /\ get_target(off) >= target
     \/ get_target(off) = target

all_instr(start, end, instr, target, include_beyond_target) ==
  LET offs == op_range(start, end)
  IN Filter(offs, {o \in Elems(offs) :
                     InstrMatches(o, instr, target, include_beyond_target)})

Abs(x) == IF x < 0 THEN 0 - x ELSE x

RECURSIVE LastInstrLoop(_, _, _, _, _, _)
LastInstrLoop(offs, instr, target, exact, result_offset, current_distance) ==
  IF offs = <<>>
    THEN result_offset
    ELSE LET off == Head(offs)
             rest == Tail(offs)
         IN IF At(code, off) \notin instr
              THEN LastInstrLoop(rest, instr, target, exact, result_offset,
                                 current_distance)
              ELSE IF target = None
                     THEN LastInstrLoop(rest, instr, target, exact, off,
                                        current_distance)
                     ELSE IF get_target(off) = target
                            THEN LastInstrLoop(rest, instr, target, exact, off, 0)
                            ELSE IF ~exact /\ Abs(target - get_target(off))
                                                <= current_distance
                                   THEN LastInstrLoop(rest, instr, target, exact, off,
                                                      Abs(target - get_target(off)))
                                   ELSE LastInstrLoop(rest, instr, target, exact,
                                                      result_offset, current_distance)

last_instr(start, end, instr, target, exact) ==
  IF ~(start >= 0 /\ end <= codelen)
    THEN None
    ELSE LastInstrLoop(op_range(start, end), instr, target, exact, None, codelen)

\* A clamp to one past the parent's end.
restrict_past_parent(target, parent) ==
  IF ~(parent.start < target /\ target < parent.end) THEN parent.end + 1 ELSE target

restrict_to_parent(target, parent) ==
  IF ~(parent.start < target /\ target < parent.end) THEN parent.end ELSE target

RECURSIVE RemOrLoop(_, _)
RemOrLoop(instr_offsets, pjit_offsets) ==
  IF pjit_offsets = <<>>
    THEN instr_offsets
    ELSE LET pjit_offset == Head(pjit_offsets)
             pjit_tgt == get_target(pjit_offset) - 3
         IN RemOrLoop(Filter(instr_offsets,
                             {o \in Elems(instr_offsets) :
                                o <= pjit_offset \/ o >= pjit_tgt}),
                      Tail(pjit_offsets))

rem_or(start, end, instr, target, include_beyond_target) ==
  RemOrLoop(all_instr(start, end, instr, target, include_beyond_target),
            all_instr(start, end, {POP_JUMP_IF_TRUE}, None, FALSE))

\* The test without its look at the last instruction of the line.
MidLineAnyLast(if_) ==
  At(self.lines, if_).l_no = At(self.lines, if_ + 3).l_no

\* The test of remove_mid_line_ifs that drops if_.
MidLine(if_) ==
  /\ At(self.lines, if_).l_no = At(self.lines, if_ + 3).l_no
  /\ At(code, At(self.prev_op, At(self.lines, if_).next))
       \in {POP_JUMP_IF_TRUE, POP_JUMP_IF_FALSE}

remove_mid_line_ifs(ifs) == Filter(ifs, {o \in Elems(ifs) : ~MidLine(o)})

(***************************************************************************)
(* build_statement_indices                                                 *)
(***************************************************************************)
statement_opcodes ==
  {SETUP_LOOP, BREAK_LOOP, CONTINUE_LOOP, SETUP_FINALLY, END_FINALLY,
   SETUP_EXCEPT, SETUP_WITH, POP_BLOCK, STORE_FAST, DELETE_FAST, STORE_DEREF,
   STORE_GLOBAL, DELETE_GLOBAL, STORE_NAME, DELETE_NAME, STORE_ATTR,
   DELETE_ATTR, STORE_SUBSCR, DELETE_SUBSCR, RETURN_VALUE, RAISE_VARARGS,
   POP_TOP, PRINT_EXPR, JUMP_ABSOLUTE}

statement_opcode_sequences ==
  <<<<POP_JUMP_IF_FALSE, JUMP_FORWARD>>, <<POP_JUMP_IF_FALSE, JUMP_ABSOLUTE>>,
    <<POP_JUMP_IF_TRUE, JUMP_FORWARD>>, <<POP_JUMP_IF_TRUE, JUMP_ABSOLUTE>>>>

designator_ops ==
  {STORE_FAST, STORE_NAME, STORE_GLOBAL, STORE_DEREF, STORE_ATTR, STORE_SUBSCR,
   UNPACK_SEQUENCE, JUMP_ABSOLUTE}

RECURSIVE MatchSequence(_, _)
\* The loop over the elements of one sequence from offset i: the offset after
\* the last element when every element matches, None otherwise.
MatchSequence(i, sequence) ==
  IF sequence = <<>>
    THEN i
    ELSE IF Head(sequence) # At(code, i)
           THEN None
           ELSE MatchSequence(i + op_size(At(code, i)), Tail(sequence))

\* The offsets the sequence search adds to stmts and pass_stmts.
SequenceStmts ==
  UNION {LET sequence == statement_opcode_sequences[q]
         IN {At(self.prev_op, MatchSequence(i, sequence)) :
               i \in {i \in Elems(op_range(0, codelen - (Len(sequence) + 1))) :
                        MatchSequence(i, sequence) # None}} :
           q \in DOMAIN statement_opcode_sequences}

RECURSIVE SortedList(_)
\* list(s) followed by sort().
SortedList(S) ==
  IF S = {}
    THEN <<>>
    ELSE LET m == CHOOSE x \in S : \A y \in S : x <= y
         IN <<m>> \o SortedList(S \ {m})

RECURSIVE Rewind(_, _)
\* while code[j] in ops: j = prev_op[j].  None when the loop cannot end: j is
\* its own predecessor and its opcode is in ops.
Rewind(j, ops) ==
  IF At(code, j) \notin ops
    THEN j
    ELSE IF At(self.prev_op, j) = j
           THEN None
           ELSE Rewind(At(self.prev_op, j), ops)

\* What one iteration of the filter loop does with stmt_offset:
\* "remove", "keep", or "hang" when a rewind loop never ends.
StmtVerdict(stmt_offset, pass_stmts, last_stmt_offset) ==
  IF At(code, stmt_offset) = JUMP_ABSOLUTE /\ stmt_offset \notin pass_stmts
    THEN IF \/ get_target(stmt_offset) > stmt_offset
            \/ At(self.lines, last_stmt_offset).l_no
                 = At(self.lines, stmt_offset).l_no
           THEN "remove"
           ELSE LET j == Rewind(At(self.prev_op, stmt_offset), {JUMP_ABSOLUTE})
                IN IF j = None
                     THEN "hang"
                     ELSE IF At(code, j) = LIST_APPEND THEN "remove" ELSE "keep"
    ELSE IF /\ At(code, stmt_offset) = POP_TOP
            /\ At(code, At(self.prev_op, stmt_offset)) = ROT_TWO
           THEN "remove"
           ELSE IF At(code, stmt_offset) \in designator_ops
                  THEN LET j == Rewind(At(self.prev_op, stmt_offset), designator_ops)
                       IN IF j = None
                            THEN "hang"
                            ELSE IF At(code, j) = FOR_ITER THEN "remove" ELSE "keep"
                  ELSE "keep"

RECURSIVE StmtLoop(_, _, _, _, _, _)
\* The loop over stmt_offset_list and the final fill of next_stmt.
StmtLoop(list, pass_stmts, stmts, next_stmt, last_stmt_offset, i) ==
  IF list = <<>>
    THEN [stmts |-> stmts,
          next_stmt |-> next_stmt \o Rep(codelen, codelen - Len(next_stmt)),
          hang |-> FALSE]
    ELSE LET stmt_offset == Head(list)
             verdict == StmtVerdict(stmt_offset, pass_stmts, last_stmt_offset)
         IN IF verdict = "hang"
              THEN [stmts |-> stmts, next_stmt |-> next_stmt, hang |-> TRUE]
              ELSE IF verdict = "remove"
                     THEN StmtLoop(Tail(list), pass_stmts, stmts \ {stmt_offset},
                                   next_stmt, last_stmt_offset, i)
                     ELSE StmtLoop(Tail(list), pass_stmts, stmts,
                                   next_stmt \o Rep(stmt_offset, stmt_offset - i),
                                   stmt_offset, stmt_offset)

build_statement_indices ==
  LET prelim == all_instr(0, codelen, statement_opcodes, None, FALSE)
      pass_stmts == SequenceStmts
      stmts == Elems(prelim) \cup pass_stmts
      stmt_offset_list == IF pass_stmts # {} THEN SortedList(stmts) ELSE prelim
  IN StmtLoop(stmt_offset_list, pass_stmts, stmts, <<>>, -1, 0)

(***************************************************************************)
(* detect_structure                                                        *)
(***************************************************************************)
prev(off) == At(self.prev_op, off)

RECURSIVE PickParentLast(_, _, _)
\* The loop without its test that the region lies within the parent picked
\* so far: the last region around off wins.
PickParentLast(structs, off, parent) ==
  IF structs = <<>>
    THEN parent
    ELSE LET struct == Head(structs)
         IN IF struct.start <= off /\ off < struct.end
              THEN PickParentLast(Tail(structs), off, struct)
              ELSE PickParentLast(Tail(structs), off, parent)

RECURSIVE PickParent(_, _, _)
\* The loop "Pick inner-most parent for our offset"; start and end are the
\* bounds of parent throughout.
PickParent(structs, off, parent) ==
  IF structs = <<>>
    THEN parent
    ELSE LET struct == Head(structs)
         IN IF /\ struct.start <= off /\ off < struct.end
               /\ struct.start >= parent.start /\ struct.end <= parent.end
              THEN PickParent(Tail(structs), off, struct)
              ELSE PickParent(Tail(structs), off, parent)

Parent(structs, off) == PickParent(structs, off, structs[1])

Struct(type, start, end) == [type |-> type, start |-> start, end |-> end]

RECURSIVE FixLoop(_, _, _)
\* The loop over jump_ifs that looks for fix; None when it finds none.
FixLoop(jump_ifs, target, last_jump_good) ==
  IF jump_ifs = <<>>
    THEN None
    ELSE LET j == Head(jump_ifs)
         IN IF target = get_target(j)
              THEN IF At(self.lines, j).next = j + 3 /\ last_jump_good
                     THEN j
                     ELSE FixLoop(Tail(jump_ifs), target, last_jump_good)
              ELSE FixLoop(Tail(jump_ifs), target, FALSE)

\* x or y, for an offset or None x.
Or(x, y) == IF x = None \/ x = 0 THEN y ELSE x

\* The first "pass" test of the and-inside-if block.
PassOnAbsolute(off, start, target, rtarget) ==
  LET ppr == prev(prev(rtarget))
  IN /\ At(code, ppr) = JUMP_ABSOLUTE
     /\ remove_mid_line_ifs(<<off>>) # <<>>
     /\ target = get_target(ppr)
     /\ (ppr \notin self.stmts \/ get_target(ppr) > ppr)
     /\ 1 = Len(remove_mid_line_ifs(
                  rem_or(start, ppr, {POP_JUMP_IF_FALSE, POP_JUMP_IF_TRUE},
                         target, FALSE)))

\* The second "pass" test.
PassOnReturn(off, start, target, rtarget) ==
  LET ppr == prev(prev(rtarget))
  IN /\ At(code, ppr) = RETURN_VALUE
     /\ remove_mid_line_ifs(<<off>>) # <<>>
     /\ 1 = Cardinality(
              Elems(remove_mid_line_ifs(
                      rem_or(start, ppr, {POP_JUMP_IF_FALSE, POP_JUMP_IF_TRUE},
                             target, FALSE)))
              \cup
              Elems(remove_mid_line_ifs(
                      rem_or(start, ppr,
                             {POP_JUMP_IF_FALSE, POP_JUMP_IF_TRUE, JUMP_ABSOLUTE},
                             prev(rtarget), TRUE))))

\* A detector that never redirects a jump to a sibling.
AndInsideIfNever(off, start, target, rtarget, parent) == None

\* "Is it an and inside if block": the destination the POP_JUMP_IF_FALSE at
\* off is fixed to, or None when the code falls through to the region rules.
AndInsideIf(off, start, target, rtarget, parent) ==
  LET match == remove_mid_line_ifs(
                 rem_or(start, At(self.next_stmt, off), {POP_JUMP_IF_FALSE},
                        target, FALSE))
  IN IF match = <<>>
       THEN None
       ELSE IF /\ At(code, prev(rtarget)) \in {JUMP_FORWARD, JUMP_ABSOLUTE}
               /\ prev(rtarget) \notin self.stmts
               /\ restrict_to_parent(get_target(prev(rtarget)), parent) = rtarget
              THEN IF PassOnAbsolute(off, start, target, rtarget)
                     THEN None
                     ELSE IF PassOnReturn(off, start, target, rtarget)
                            THEN None
                            ELSE Or(FixLoop(all_instr(start, At(self.next_stmt, off),
                                                      {POP_JUMP_IF_FALSE}, None, FALSE),
                                            target, TRUE),
                                    At(match, -1))
              ELSE At(match, -1)

\* The POP_JUMP_IF_TRUE branch: the fixed destination, or None.
OrJump(off, target, rtarget) ==
  LET next == At(self.next_stmt, off)
  IN IF prev(next) = off
       THEN None
       ELSE IF At(code, next) \in {JUMP_FORWARD, JUMP_ABSOLUTE}
                 /\ target = get_target(next)
              THEN IF /\ At(code, prev(next)) = POP_JUMP_IF_FALSE
                      /\ \/ At(code, next) = JUMP_FORWARD
                         \/ target # rtarget
                         \/ At(code, prev(prev(rtarget)))
                              \notin {JUMP_ABSOLUTE, RETURN_VALUE}
                     THEN prev(next)
                     ELSE None
              ELSE IF /\ At(code, next) = JUMP_ABSOLUTE
                      /\ At(code, target) \in {JUMP_ABSOLUTE, JUMP_FORWARD}
                      /\ get_target(target) = get_target(next)
                     THEN prev(next)
                     ELSE None

\* rtarget after "rtarget = prev_op[rtarget]" (lines 526-529), when taken.
SkipTrailingJump(off, rtarget) ==
  IF /\ At(code, prev(rtarget)) = JUMP_ABSOLUTE
     /\ prev(rtarget) \in self.stmts
     /\ prev(rtarget) # off
     /\ prev(prev(rtarget)) # off
     /\ ~(/\ At(code, rtarget) = JUMP_ABSOLUTE
          /\ At(code, rtarget + 3) = POP_BLOCK
          /\ At(code, prev(prev(rtarget))) # JUMP_ABSOLUTE)
    THEN prev(rtarget)
    ELSE rtarget

\* Regions that register an if-then region up to the destination whatever
\* precedes the destination.
RegionsAlwaysIfThen(st, start, rtarget, parent) ==
  [st EXCEPT !.structs = @ \o <<Struct("if-then", start, rtarget)>>]

\* Regions whose if-else region starts at the trailing jump.
RegionsElseAtJump(st, start, rtarget, parent) ==
  IF At(code, prev(rtarget)) \in {JUMP_ABSOLUTE, JUMP_FORWARD}
    THEN LET end == restrict_to_parent(get_target(prev(rtarget)), parent)
         IN [st EXCEPT
               !.structs =
                  (@ \o <<Struct("if-then", start, prev(rtarget))>>)
                    \o (IF rtarget < end
                          THEN <<Struct("if-else", prev(rtarget), end)>>
                          ELSE <<>>),
               !.not_continue = @ \cup {prev(rtarget)}]
    ELSE st

\* Regions that take every backward jump to a loop top for a loop.
RegionsLoopAbort(st, start, rtarget, parent) ==
  IF At(code, prev(rtarget)) \in {JUMP_ABSOLUTE, JUMP_FORWARD}
    THEN LET if_end == get_target(prev(rtarget))
         IN IF if_end < prev(rtarget) /\ At(code, prev(if_end)) = SETUP_LOOP
              THEN st
              ELSE [st EXCEPT
                      !.structs = @ \o <<Struct("if-then", start, prev(rtarget))>>,
                      !.not_continue = @ \cup {prev(rtarget)}]
    ELSE st

\* Lines 531-555: the regions registered for the jump at off.
Regions(st, start, rtarget, parent) ==
  IF At(code, prev(rtarget)) \in {JUMP_ABSOLUTE, JUMP_FORWARD}
    THEN LET if_end == get_target(prev(rtarget))
             end == restrict_to_parent(if_end, parent)
         IN IF /\ if_end < prev(rtarget)
               /\ At(code, prev(if_end)) = SETUP_LOOP
               /\ if_end > start
              THEN st
              ELSE [st EXCEPT
                      !.structs =
                         (@ \o <<Struct("if-then", start, prev(rtarget))>>)
                           \o (IF rtarget < end
                                 THEN <<Struct("if-else", rtarget, end)>>
                                 ELSE <<>>),
                      !.not_continue = @ \cup {prev(rtarget)}]
    ELSE IF At(code, prev(rtarget)) = RETURN_VALUE
           THEN [st EXCEPT
                   !.structs = @ \o <<Struct("if-then", start, rtarget)>>,
                   !.return_end_ifs = @ \cup {prev(rtarget)}]
           ELSE st

PopJump(st, off, op, parent) ==
  LET start == off + op_size(op)
      target == get_target(off)
      rtarget == restrict_to_parent(target, parent)
  IN IF target # rtarget /\ parent.type = "and/or"
       THEN [st EXCEPT !.fixed_jumps = DictSet(@, off, rtarget)]
       ELSE IF /\ At(code, prev(target))
                    \in {JUMP_IF_FALSE_OR_POP, JUMP_IF_TRUE_OR_POP,
                         POP_JUMP_IF_FALSE, POP_JUMP_IF_TRUE}
               /\ target > off
              THEN [st EXCEPT
                      !.fixed_jumps = DictSet(@, off, prev(target)),
                      !.structs = @ \o <<Struct("and/or", start, prev(target))>>]
              ELSE LET fix == IF op = POP_JUMP_IF_FALSE
                                THEN AndInsideIf(off, start, target, rtarget, parent)
                                ELSE OrJump(off, target, rtarget)
                   IN IF fix # None
                        THEN [st EXCEPT !.fixed_jumps = DictSet(@, off, fix)]
                        ELSE Regions(st, start, SkipTrailingJump(off, rtarget),
                                     parent)

OrPop(st, off, parent) ==
  LET target == get_target(off)
  IN IF target > off
       THEN LET unop_target == last_instr(off, target, {JUMP_FORWARD}, target, TRUE)
            IN IF /\ unop_target # None /\ unop_target # 0
                  /\ At(code, unop_target + 3) # ROT_TWO
                 THEN [st EXCEPT !.fixed_jumps = DictSet(@, off, unop_target)]
                 ELSE [st EXCEPT !.fixed_jumps =
                                    DictSet(@, off, restrict_to_parent(target, parent))]
       ELSE st

\* st holds structs, fixed_jumps, not_continue and return_end_ifs as they are
\* before the call; the result holds them as they are after it.
detect_structure(st, off) ==
  LET op == At(code, off)
      parent == Parent(st.structs, off)
  IN IF op \in {POP_JUMP_IF_FALSE, POP_JUMP_IF_TRUE}
       THEN PopJump(st, off, op, parent)
       ELSE IF op \in {JUMP_IF_FALSE_OR_POP, JUMP_IF_TRUE_OR_POP}
              THEN OrPop(st, off, parent)
              ELSE st

(***************************************************************************)
(* find_jump_targets: the body of its loop after detect_structure.         *)
(***************************************************************************)
\* targets[label] = targets.get(label, []) + [offset]
AddTarget(tg, label, off) ==
  DictSet(tg, label, (IF label \in DOMAIN tg THEN tg[label] ELSE <<>>) \o <<off>>)

\* The label the loop body computes for the instruction at off; None when it
\* records nothing.
JumpLabel(fixed_jumps, off) ==
  LET op == At(code, off)
  IN IF op >= HAVE_ARGUMENT
       THEN LET label == DictGet(fixed_jumps, off)
                oparg == At(code, off + 1) + At(code, off + 2) * 256
            IN IF label = None
                 THEN IF op \in hasjrel /\ op # FOR_ITER
                        THEN off + 3 + oparg
                        ELSE IF /\ op \in hasjabs
                                /\ op \in {JUMP_IF_FALSE_OR_POP, JUMP_IF_TRUE_OR_POP}
                                /\ oparg > off
                               THEN oparg
                               ELSE None
                 ELSE IF label # -1 THEN label ELSE None
       ELSE IF op = END_FINALLY /\ off \in DOMAIN fixed_jumps
              THEN fixed_jumps[off]
              ELSE None

RecordTarget(tg, fixed_jumps, off) ==
  IF JumpLabel(fixed_jumps, off) = None
    THEN tg
    ELSE AddTarget(tg, JumpLabel(fixed_jumps, off), off)

(***************************************************************************)
(* tokenize: the loop over the instructions.                               *)
(***************************************************************************)
RECURSIVE ComeFroms(_, _, _)
\* The COME_FROM tokens of offset off for the sources jumps[idx + 1 ..].
ComeFroms(off, jumps, jump_idx) ==
  IF jump_idx >= Len(jumps)
    THEN <<>>
    ELSE <<Token("COME_FROM", PyNone, PyStr(DecStr(At(jumps, jump_idx))),
                 ComeFromLabel(off, jump_idx), FALSE)>>
           \o ComeFroms(off, jumps, jump_idx + 1)

\* The fake token of a new-if target.
FakeToken(off) ==
  Token(opname(JUMP_FORWARD), PyInt(0), PyStr(DecStr(off)), FakeLabel(off), FALSE)

\* pattr of the instruction op with argument oparg at off.
Pattr(code_obj, op, oparg, off) ==
  IF op \in hasconst
    THEN PyStr(At(code_obj.co_consts, oparg))
    ELSE IF op \in hasname
           THEN PyStr(At(code_obj.co_names, oparg))
           ELSE IF op \in hasjrel
                  THEN PyStr(DecStr(off + 3 + oparg))
                  ELSE IF op \in haslocal
                         THEN PyStr(At(code_obj.co_varnames, oparg))
                         ELSE IF op \in hascompare
                                THEN PyStr(At(code_obj.cmp_op, oparg))
                                ELSE IF op \in hasfree
                                       THEN PyStr(At(code_obj.co_cellvars
                                                       \o code_obj.co_freevars, oparg))
                                       ELSE PyNone

\* The token of the instruction at off.
RealToken(code_obj, off, extended_arg) ==
  LET op == At(code, off)
      oparg == At(code, off + 1) + At(code, off + 2) * 256 + extended_arg
  IN IF op >= HAVE_ARGUMENT
       THEN Token(opname(op), PyInt(oparg), Pattr(code_obj, op, oparg, off),
                  PyInt(off), off \in DOMAIN self.linestarts)
       ELSE Token(opname(op), PyNone, PyNone, PyInt(off),
                  off \in DOMAIN self.linestarts)

\* extended_arg after the instruction at off.
NextExtendedArg(off, extended_arg) ==
  LET op == At(code, off)
      oparg == At(code, off + 1) + At(code, off + 2) * 256 + extended_arg
  IN IF op >= HAVE_ARGUMENT
       THEN IF op = EXTENDED_ARG THEN oparg * 65536 ELSE 0
       ELSE extended_arg

\* A new-if pass that registers no join source.
WithoutNewIf(jump_targets, off) == jump_targets

\* jump_targets after "Process new ifs" at off.
WithNewIf(jump_targets, off) ==
  IF off \in DictValues(self.new_ifs)
    THEN AddTarget(jump_targets, off, off)
    ELSE jump_targets

\* An iteration whose COME_FROM tokens take the place of the instruction's.
TokensAtJoinOnly(code_obj, jump_targets, off, extended_arg) ==
  IF off \in DOMAIN WithNewIf(jump_targets, off)
    THEN ComeFroms(off, WithNewIf(jump_targets, off)[off], 0)
    ELSE <<RealToken(code_obj, off, extended_arg)>>

\* The tokens one iteration appends at off.
TokensAt(code_obj, jump_targets, off, extended_arg) ==
  (IF off \in DictValues(self.new_ifs) THEN <<FakeToken(off)>> ELSE <<>>)
    \o (IF off \in DOMAIN WithNewIf(jump_targets, off)
          THEN ComeFroms(off, WithNewIf(jump_targets, off)[off], 0)
          ELSE <<>>)
    \o <<RealToken(code_obj, off, extended_arg)>>

RECURSIVE TokenLoop(_, _, _, _, _)
\* The loop of tokenize over offs: the tokens and jump_targets at its end.
TokenLoop(code_obj, offs, toks, jump_targets, extended_arg) ==
  IF offs = <<>>
    THEN [tokens |-> toks, jump_targets |-> jump_targets]
    ELSE TokenLoop(code_obj, Tail(offs),
                   toks \o TokensAt(code_obj, jump_targets, Head(offs), extended_arg),
                   WithNewIf(jump_targets, Head(offs)),
                   NextExtendedArg(Head(offs), extended_arg))

(***************************************************************************)
(* Code units.  An instruction is written <<op, t>>: for a jump t is the   *)
(* index of the instruction it targets, otherwise t is its raw argument.   *)
(***************************************************************************)
MaxInstr == 2

JumpOps == hasjrel \cup hasjabs

RECURSIVE StartsOf(_, _)
\* The start offset of each instruction, given that the first starts at base.
StartsOf(ins, base) ==
  IF ins = <<>>
    THEN <<>>
    ELSE <<base>> \o StartsOf(Tail(ins), base + op_size(Head(ins)[1]))

Operand(ins, starts, k) ==
  LET op == ins[k][1]
      t == ins[k][2]
  IN IF op \in hasjrel
       THEN starts[t] - (starts[k] + 3)
       ELSE IF op \in hasjabs THEN starts[t] ELSE t

RECURSIVE Assemble(_, _, _)
Assemble(ins, starts, k) ==
  IF k > Len(ins)
    THEN <<>>
    ELSE (IF ins[k][1] < HAVE_ARGUMENT
            THEN <<ins[k][1]>>
            ELSE <<ins[k][1], Operand(ins, starts, k) % 256,
                   Operand(ins, starts, k) \div 256>>)
           \o Assemble(ins, starts, k + 1)

\* Jumps target instructions of the unit; relative jumps go forward (their
\* operand is unsigned).
WellFormed(ins) ==
  \A k \in DOMAIN ins :
    /\ ins[k][1] \in JumpOps => ins[k][2] \in DOMAIN ins
    /\ ins[k][1] \in hasjrel => ins[k][2] > k

\* The code unit of the instructions ins whose source lines start at the
\* instructions breaks (the first line starts at offset 0).
Unit(ins, breaks) ==
  LET starts == StartsOf(ins, 0)
      marks == SortedList({1} \cup breaks)
  IN [co_code |-> Assemble(ins, starts, 1),
      linestarts |-> [m \in DOMAIN marks |-> <<starts[marks[m]], m>>],
      co_consts |-> <<<<"N", "o", "n", "e">>, <<"1">>>>,
      co_names |-> <<<<"f">>, <<"g">>>>,
      co_varnames |-> <<<<"a">>, <<"b">>>>,
      cmp_op |-> <<<<"<">>, <<"<", "=">>>>,
      co_cellvars |-> <<<<"c">>>>,
      co_freevars |-> <<<<"d">>>>]

GenOps ==
  {POP_TOP, LOAD_FAST, STORE_FAST, RETURN_VALUE, JUMP_FORWARD, JUMP_ABSOLUTE,
   POP_JUMP_IF_FALSE, POP_JUMP_IF_TRUE, JUMP_IF_FALSE_OR_POP, SETUP_LOOP}

GenInstrs(n) ==
  {<<op, 0>> : op \in GenOps \ JumpOps}
    \cup {<<op, t>> : op \in GenOps \cap JumpOps, t \in 1 .. n}

\* One source line, or two with the second starting at any instruction.
GenBreaks(n) == {{}} \cup {{k} : k \in 2 .. n}

Call(inst, unit) == [inst |-> inst, co |-> unit]

\* One call, on the unit of a well-formed program of at most MaxInstr
\* instructions of GenOps followed by RETURN_VALUE.
GenCall ==
  \E n \in 1 .. MaxInstr + 1 :
    \E q \in [1 .. n - 1 -> GenInstrs(n)] :
      \E b \in GenBreaks(n) :
        /\ WellFormed(q \o <<<<RETURN_VALUE, 0>>>>)
        /\ calls = <<Call(1, Unit(q \o <<<<RETURN_VALUE, 0>>>>, b))>>

(***************************************************************************)
(* Compiled shapes: prefix; condition; body; trailing jump; else part;     *)
(* suffix.  In a block an instruction is <<op, label, arg>>: label names   *)
(* the instruction a jump targets ("T" the loop top, "B" the body, "D" the *)
(* else part, "E" the suffix, "X" the last instruction), "" for none.      *)
(***************************************************************************)
Pres ==
  {<<>>,
   <<<<LOAD_FAST, "", 0>>>>,
   <<<<SETUP_LOOP, "E", 0>>, <<LOAD_FAST, "", 0>>>>,
   <<<<LOAD_FAST, "", 0>>, <<POP_JUMP_IF_FALSE, "X", 0>>>>}

Conds ==
  {<<<<POP_JUMP_IF_FALSE, "D", 0>>>>,
   <<<<POP_JUMP_IF_TRUE, "D", 0>>>>,
   <<<<POP_JUMP_IF_FALSE, "D", 0>>, <<LOAD_FAST, "", 1>>,
     <<POP_JUMP_IF_FALSE, "D", 0>>>>,
   <<<<POP_JUMP_IF_FALSE, "D", 0>>, <<POP_JUMP_IF_FALSE, "D", 0>>>>,
   <<<<POP_JUMP_IF_TRUE, "B", 0>>, <<LOAD_FAST, "", 1>>,
     <<POP_JUMP_IF_FALSE, "D", 0>>>>}

Bodies ==
  {<<>>,
   <<<<POP_TOP, "", 0>>>>,
   <<<<LOAD_FAST, "", 0>>, <<STORE_FAST, "", 1>>>>,
   <<<<LOAD_FAST, "", 0>>>>,
   <<<<RETURN_VALUE, "", 0>>>>}

Trails ==
  {<<>>,
   <<<<JUMP_FORWARD, "E", 0>>>>,
   <<<<JUMP_FORWARD, "D", 0>>>>,
   <<<<JUMP_ABSOLUTE, "T", 0>>>>,
   <<<<JUMP_ABSOLUTE, "E", 0>>>>,
   <<<<RETURN_VALUE, "", 0>>>>,
   <<<<JUMP_ABSOLUTE, "T", 0>>, <<JUMP_ABSOLUTE, "T", 0>>>>}

Elses ==
  {<<>>,
   <<<<POP_TOP, "", 0>>>>,
   <<<<LOAD_FAST, "", 0>>, <<STORE_FAST, "", 1>>>>}

Sufs ==
  {<<<<RETURN_VALUE, "", 0>>>>,
   <<<<POP_BLOCK, "", 0>>, <<LOAD_CONST, "", 0>>, <<RETURN_VALUE, "", 0>>>>}

\* The index of the instruction a label names.
LabelIndex(label, pre, cond, body, trail, els, suf) ==
  CASE label = "T" -> IF pre # <<>> /\ pre[1][1] = SETUP_LOOP THEN 2 ELSE 1
    [] label = "B" -> Len(pre) + Len(cond) + 1
    [] label = "D" -> Len(pre) + Len(cond) + Len(body) + Len(trail) + 1
    [] label = "E" -> Len(pre) + Len(cond) + Len(body) + Len(trail) + Len(els) + 1
    [] label = "X" -> Len(pre) + Len(cond) + Len(body) + Len(trail) + Len(els)
                        + Len(suf)

Shape(pre, cond, body, trail, els, suf) ==
  LET blocks == pre \o cond \o body \o trail \o els \o suf
  IN [k \in DOMAIN blocks |->
        <<blocks[k][1],
          IF blocks[k][2] = ""
            THEN blocks[k][3]
            ELSE LabelIndex(blocks[k][2], pre, cond, body, trail, els, suf)>>]

\* The source lines of a shape start at any of: the body, the trailing jump,
\* the else part.
ShapeBreaks(pre, cond, body, trail) ==
  SUBSET {Len(pre) + Len(cond) + 1,
          Len(pre) + Len(cond) + Len(body) + 1,
          Len(pre) + Len(cond) + Len(body) + Len(trail) + 1}

\* One call, on the unit of a compiled shape.
ShapeCall ==
  \E pre \in Pres, cond \in Conds, body \in Bodies, trail \in Trails,
     els \in Elses, suf \in Sufs :
    \E b \in ShapeBreaks(pre, cond, body, trail) :
      calls = <<Call(1, Unit(Shape(pre, cond, body, trail, els, suf), b))>>

(***************************************************************************)
(* Nested shapes: a conditional of NestLen instructions inside the body   *)
(* of an if/else.  Instruction 2 is the outer POP_JUMP_IF_FALSE, the body  *)
(* is instructions 3 .. NestLen + 2, then the outer JUMP_FORWARD, the else *)
(* part and the final RETURN_VALUE.                                        *)
(***************************************************************************)
NestLen == 3

NestEnd == NestLen + 5

\* The first instruction of the body: a conditional jump forward.
NestConds ==
  {<<op, t>> : op \in {POP_JUMP_IF_FALSE, POP_JUMP_IF_TRUE}, t \in 4 .. NestEnd}

\* A later instruction of the body, at index k.
NestInstrs(k) ==
  {<<POP_TOP, 0>>, <<RETURN_VALUE, 0>>}
    \cup {<<op, t>> : op \in {JUMP_FORWARD, POP_JUMP_IF_FALSE}, t \in k + 1 .. NestEnd}

Nest(body) ==
  <<<<LOAD_FAST, 0>>, <<POP_JUMP_IF_FALSE, NestEnd - 1>>>>
    \o body
    \o <<<<JUMP_FORWARD, NestEnd>>, <<POP_TOP, 0>>, <<RETURN_VALUE, 0>>>>

NestBreaks == {{}, {3}, {3, NestEnd - 1}}

\* One call, on the unit of a nested shape.
NestCall ==
  \E c \in NestConds :
    \E q \in [1 .. NestLen - 1 -> NestInstrs(4)] :
      \E b \in NestBreaks :
        /\ \A k \in DOMAIN q : q[k] \in NestInstrs(k + 3)
        /\ calls = <<Call(1, Unit(Nest(<<c>> \o q), b))>>

(***************************************************************************)
(* The state machine: tokenize() calls on Scanner instances.               *)
(***************************************************************************)
Insts == {1, 2}

\* A Scanner on which tokenize was never called: it has no attribute yet.
Fresh ==
  [code |-> <<>>, linestarts |-> EmptyDict, linestart_offsets |-> {},
   lines |-> <<>>, prev_op |-> <<>>, new_ifs |-> EmptyDict, structs |-> <<>>,
   fixed_jumps |-> EmptyDict, stmts |-> {}, next_stmt |-> <<>>,
   not_continue |-> {}, return_end_ifs |-> {}]

Init ==
  /\ GenCall \/ ShapeCall \/ NestCall
  /\ cur = 1
  /\ scanners = [i \in Insts |-> Fresh]
  /\ pc = "tokenize"
  /\ offset = 0
  /\ targets = EmptyDict
  /\ returned = <<>>

SetSelf(fields) ==
  scanners' = [scanners EXCEPT ![calls[cur].inst] = fields]

\* tokenize, lines 26-29: self.code = co.co_code and build_lines_data(co).
Tokenize ==
  /\ pc = "tokenize"
  /\ LET d == build_lines_data(co)
     IN SetSelf([self EXCEPT !.code = co.co_code,
                             !.linestarts = d.linestarts,
                             !.linestart_offsets = d.linestart_offsets,
                             !.lines = d.lines])
  /\ pc' = "build_prev_op"
  /\ UNCHANGED <<calls, cur, offset, targets, returned>>

BuildPrevOp ==
  /\ pc = "build_prev_op"
  /\ SetSelf([self EXCEPT !.prev_op = build_prev_op])
  /\ pc' = "find_new_ifs"
  /\ UNCHANGED <<calls, cur, offset, targets, returned>>

FindNewIfs ==
  /\ pc = "find_new_ifs"
  /\ SetSelf([self EXCEPT !.new_ifs = find_new_ifs])
  /\ pc' = "find_jump_targets"
  /\ UNCHANGED <<calls, cur, offset, targets, returned>>

RootStruct == Struct("root", 0, codelen - 1)

\* find_jump_targets up to its loop (lines 203-216).  When a rewind loop of
\* build_statement_indices never ends, the call never gets further.
FindJumpTargets ==
  /\ pc = "find_jump_targets"
  /\ LET b == build_statement_indices
     IN IF b.hang
          THEN /\ SetSelf([self EXCEPT !.structs = <<RootStruct>>,
                                       !.fixed_jumps = EmptyDict,
                                       !.stmts = b.stmts,
                                       !.next_stmt = b.next_stmt])
               /\ pc' = "hang"
          ELSE /\ SetSelf([self EXCEPT !.structs = <<RootStruct>>,
                                       !.fixed_jumps = EmptyDict,
                                       !.stmts = b.stmts,
                                       !.next_stmt = b.next_stmt,
                                       !.not_continue = {},
                                       !.return_end_ifs = {}])
               /\ pc' = "detect"
  /\ offset' = 0
  /\ targets' = EmptyDict
  /\ UNCHANGED <<calls, cur, returned>>

Detected(s) ==
  [structs |-> s.structs, fixed_jumps |-> s.fixed_jumps,
   not_continue |-> s.not_continue, return_end_ifs |-> s.return_end_ifs]

\* One iteration of the loop of find_jump_targets (lines 217-239).
DetectStep ==
  /\ pc = "detect"
  /\ offset < codelen
  /\ LET st == detect_structure(Detected(self), offset)
     IN /\ SetSelf([self EXCEPT !.structs = st.structs,
                                !.fixed_jumps = st.fixed_jumps,
                                !.not_continue = st.not_continue,
                                !.return_end_ifs = st.return_end_ifs])
        /\ targets' = RecordTarget(targets, st.fixed_jumps, offset)
  /\ offset' = offset + op_size(At(code, offset))
  /\ UNCHANGED <<calls, cur, pc, returned>>

\* The loop of tokenize (lines 37-92) and its return; the next call, if any,
\* starts from the instances as they are.
EmitTokens ==
  /\ pc = "detect"
  /\ offset >= codelen
  /\ LET r == TokenLoop(co, op_range(0, codelen), <<>>, targets, 0)
     IN /\ returned' = Append(returned, r.tokens)
        /\ targets' = r.jump_targets
  /\ IF cur < Len(calls)
       THEN cur' = cur + 1 /\ pc' = "tokenize"
       ELSE cur' = cur /\ pc' = "done"
  /\ UNCHANGED <<calls, scanners, offset>>

Next ==
  \/ Tokenize
  \/ BuildPrevOp
  \/ FindNewIfs
  \/ FindJumpTargets
  \/ DetectStep
  \/ EmitTokens

Spec == Init /\ [][Next]_vars

(***************************************************************************)
(* Reuse: tokenize(A) and then tokenize(B) on Scanner 1, tokenize(B) on    *)
(* the fresh Scanner 2.                                                    *)
(***************************************************************************)
ReuseTrails ==
  {<<>>,
   <<<<JUMP_FORWARD, "E", 0>>>>,
   <<<<JUMP_ABSOLUTE, "T", 0>>>>,
   <<<<RETURN_VALUE, "", 0>>>>}

\* An if, if/else, loop or conditional return over one source line or over
\* one line for each part.
ReuseUnit(cond, trail, lined) ==
  LET pre == <<<<LOAD_FAST, "", 0>>>>
      body == <<<<POP_TOP, "", 0>>>>
      els == <<<<POP_TOP, "", 0>>>>
      suf == <<<<RETURN_VALUE, "", 0>>>>
  IN Unit(Shape(pre, cond, body, trail, els, suf),
          IF lined
            THEN {Len(pre) + Len(cond) + 1,
                  Len(pre) + Len(cond) + Len(body) + Len(trail) + 1}
            ELSE {})

InitReuse ==
  /\ \E condA \in Conds, trailA \in ReuseTrails, linedA \in BOOLEAN,
        condB \in Conds, trailB \in ReuseTrails, linedB \in BOOLEAN :
       calls = <<Call(1, ReuseUnit(condA, trailA, linedA)),
                 Call(1, ReuseUnit(condB, trailB, linedB)),
                 Call(2, ReuseUnit(condB, trailB, linedB))>>
  /\ cur = 1
  /\ scanners = [i \in Insts |-> Fresh]
  /\ pc = "tokenize"
  /\ offset = 0
  /\ targets = EmptyDict
  /\ returned = <<>>

SpecReuse == InitReuse /\ [][Next]_vars

(***************************************************************************)
(* Properties.                                                             *)
(***************************************************************************)
InstrStarts == Elems(op_range(0, codelen))

\* The passes that have run in the current call.
PrevOpBuilt == pc \in {"find_new_ifs", "find_jump_targets", "detect", "hang", "done"}

\* C3 as stated: PrevOp maps every byte b of the instruction at s, s itself
\* included, to s.
C3_PrevOpMapsByteToOwnStart ==
  PrevOpBuilt =>
    \A s \in InstrStarts :
      \A b \in s .. s + op_size(At(code, s)) - 1 : At(self.prev_op, b) = s

\* C3 amended: the table has one entry more than the buffer, entry 0 is 0,
\* and the entry AFTER each byte b of the instruction at s is s; so the entry
\* of an instruction start is the start of the instruction before it.
C3_PrevOpMapsNextByteToStart ==
  PrevOpBuilt =>
    /\ Len(self.prev_op) = codelen + 1
    /\ At(self.prev_op, 0) = 0
    /\ \A s \in InstrStarts :
         \A b \in s .. s + op_size(At(code, s)) - 1 : At(self.prev_op, b + 1) = s

C3_Witness ==
  /\ PrevOpBuilt
  /\ \E s \in InstrStarts :
       /\ s > 0
       /\ op_size(At(code, s)) = 3
       /\ At(self.prev_op, s) < s
       /\ At(self.prev_op, s + 3) = s

\* The token sequence the last finished call returned.
LastTokens(ret) == ret[Len(ret)]

\* A token of an instruction carries the instruction's offset; the fake and
\* COME_FROM tokens carry a string label.
IsReal(t) == t.offset.t = "int"

IsComeFrom(t) == t.type = "COME_FROM"

\* The positions of the COME_FROM tokens labelled d_0, d_1, ...
ComeFromsFor(toks, d) ==
  {k \in DOMAIN toks :
     /\ IsComeFrom(toks[k])
     /\ \E j \in 0 .. Len(toks) : toks[k].offset = ComeFromLabel(d, j)}

\* The COME_FROM tokens of d are exactly the m tokens immediately before the
\* token of the instruction at d, and their labels are pairwise distinct.
JoinRun(toks, d, m) ==
  \E i \in DOMAIN toks :
    /\ toks[i].offset = PyInt(d)
    /\ ComeFromsFor(toks, d) = (i - m) .. (i - 1)
    /\ \A k1, k2 \in (i - m) .. (i - 1) :
         k1 # k2 => toks[k1].offset # toks[k2].offset

\* The step that ends a call: the detection pass is over and the tokens are
\* emitted from its table.
EmitStep == pc = "detect" /\ offset >= codelen /\ pc' # "detect"

\* C2 as stated: a destination d with n > 1 sources recorded by the detection
\* pass gets exactly n COME_FROM tokens, contiguous and immediately before the
\* token at d, with distinct labels, whether or not d is a new-if target.
C2_ExactlyNComeFroms ==
  [][EmitStep =>
       \A d \in DOMAIN targets :
         Len(targets[d]) > 1 =>
           JoinRun(LastTokens(returned'), d, Len(targets[d]))]_vars

\* C2 amended: a destination d with n > 1 recorded sources gets exactly n
\* COME_FROM tokens when d is not a new-if target and exactly n + 1 when it
\* is (the new-if pass adds d itself as one more source, after the fake
\* token); in both cases they are contiguous, immediately before the token at
\* d, and their labels are pairwise distinct.
C2_ComeFromsCountNewIf ==
  [][EmitStep =>
       \A d \in DOMAIN targets :
         Len(targets[d]) > 1 =>
           JoinRun(LastTokens(returned'), d,
                   Len(targets[d])
                     + (IF d \in DictValues(self.new_ifs) THEN 1 ELSE 0))]_vars

\* A finished call whose join at a new-if target d has two recorded sources
\* and d itself: three COME_FROM tokens.
C2_Witness ==
  /\ pc = "done"
  /\ \E d \in DOMAIN targets :
       /\ d \in DictValues(self.new_ifs)
       /\ Len(targets[d]) = 3
       /\ At(targets[d], 2) = d
       /\ JoinRun(LastTokens(returned), d, 3)

\* C10: the tokens of instructions, in the order emitted, are exactly the
\* instruction starts of op_range(0, codelen) in ascending order, one each;
\* no fake or COME_FROM token takes the place of one.
C10_OneRealTokenPerInstruction ==
  pc = "done" =>
    LET real == SelectSeq(LastTokens(returned), IsReal)
        offs == op_range(0, codelen)
    IN /\ Len(real) = Len(offs)
       /\ \A k \in DOMAIN offs :
            /\ real[k].offset = PyInt(offs[k])
            /\ real[k].type = opname(At(code, offs[k]))
       /\ \A k \in DOMAIN offs : k > 1 => offs[k - 1] < offs[k]

\* A finished call that emitted a fake token and a COME_FROM token besides the
\* tokens of at least three instructions.
C10_Witness ==
  /\ pc = "done"
  /\ Len(op_range(0, codelen)) >= 3
  /\ \E k \in DOMAIN LastTokens(returned) : IsComeFrom(LastTokens(returned)[k])
  /\ \E k \in DOMAIN LastTokens(returned) :
       /\ ~IsReal(LastTokens(returned)[k])
       /\ ~IsComeFrom(LastTokens(returned)[k])


(***************************************************************************)
(* One step of the detection pass: detect_structure at offset.             *)
(***************************************************************************)
Detecting == pc = "detect" /\ offset < codelen

\* The regions the step appends to the region list.
Appended ==
  LET after == scanners'[calls[cur].inst].structs
  IN SubSeq(after, Len(self.structs) + 1, Len(after))

ReturnEndIfsAfter == scanners'[calls[cur].inst].return_end_ifs

FixedJumpsAfter == scanners'[calls[cur].inst].fixed_jumps

CondJumps ==
  {JUMP_IF_FALSE_OR_POP, JUMP_IF_TRUE_OR_POP, POP_JUMP_IF_FALSE, POP_JUMP_IF_TRUE}

\* Clamping the destination of the jump at o to the innermost region around
\* o leaves it where it is.
Unclamped(o) ==
  restrict_to_parent(get_target(o), Parent(self.structs, o)) = get_target(o)

\* The destination of the jump at o is strictly inside the innermost region
\* around o.
StrictlyInside(o) ==
  /\ Parent(self.structs, o).start < get_target(o)
  /\ get_target(o) < Parent(self.structs, o).end

\* The sibling candidates of the POP_JUMP_IF_FALSE at o: the later
\* POP_JUMP_IF_FALSE jumps of its statement to the same destination that
\* rem_or and remove_mid_line_ifs keep.
Siblings(o) ==
  remove_mid_line_ifs(rem_or(o + 3, At(self.next_stmt, o), {POP_JUMP_IF_FALSE},
                             get_target(o), FALSE))

IfThen(a, b) == Struct("if-then", a, b)

IfElse(a, b) == Struct("if-else", a, b)

\* Scenario A: a POP_JUMP_IF_FALSE at o with a forward destination and no
\* unconditional jump before the destination.
ScenarioA(o) ==
  /\ At(code, o) = POP_JUMP_IF_FALSE
  /\ get_target(o) > o
  /\ At(code, prev(get_target(o))) \notin {JUMP_FORWARD, JUMP_ABSOLUTE}

\* C4 as stated: in scenario A the step appends exactly one region, the
\* if-then region from o + 3 to d.
C4_IfThenUpToDestination ==
  [][Detecting /\ ScenarioA(offset) =>
       Appended = <<IfThen(offset + 3, get_target(offset))>>]_vars

\* C4 amended: in scenario A, with d not moved by clamping to the innermost
\* region around o, the step never appends an if-else region; it appends an if-then
\* region (from o + 3 to d) only when the instruction before d is
\* RETURN_VALUE, an and/or region (from o + 3 to that instruction) when it is
\* a conditional jump, and no region at all when it is neither.
C4_NoRegionForPlainIf ==
  [][Detecting /\ ScenarioA(offset) /\ Unclamped(offset) =>
       LET d == get_target(offset)
           before == At(code, prev(d))
       IN /\ \A k \in DOMAIN Appended : Appended[k].type # "if-else"
          /\ before \in CondJumps =>
               Appended = <<Struct("and/or", offset + 3, prev(d))>>
          /\ before = RETURN_VALUE =>
               Appended \in {<<>>, <<IfThen(offset + 3, d)>>}
          /\ before \notin CondJumps \cup {RETURN_VALUE} => Appended = <<>>]_vars

\* The detection pass went over a plain if: a POP_JUMP_IF_FALSE at o whose
\* body ends in neither a jump nor a return, and no region besides the root
\* was registered.
C4_Witness ==
  /\ pc = "detect"
  /\ \E o \in InstrStarts :
       /\ o < offset
       /\ ScenarioA(o)
       /\ get_target(o) > o + 3
       /\ At(code, prev(get_target(o))) \notin CondJumps \cup {RETURN_VALUE}
       /\ self.structs = <<RootStruct>>

\* Scenario B: the instruction before the destination d of the
\* POP_JUMP_IF_FALSE at o is a JUMP_FORWARD whose destination is beyond d.
ScenarioB(o) ==
  /\ At(code, o) = POP_JUMP_IF_FALSE
  /\ At(code, prev(get_target(o))) = JUMP_FORWARD
  /\ get_target(prev(get_target(o))) > get_target(o)

\* C5 as stated: in scenario B the step appends the if-then region from o + 3
\* to j and an if-else region that starts at j and ends at e clamped to the
\* parent.
C5_IfElseStartsAtJump ==
  [][Detecting /\ ScenarioB(offset) =>
       LET j == prev(get_target(offset))
           end == restrict_to_parent(get_target(j), Parent(self.structs, offset))
       IN Appended = <<IfThen(offset + 3, j), IfElse(j, end)>>]_vars

\* C5 amended: in scenario B, with d strictly inside the innermost region
\* around o, the step appends either nothing or exactly the if-then region
\* from o + 3 to j followed by an if-else region that starts at d, the
\* instruction after j, and ends at e clamped to the parent; it appends both
\* whenever the jump has no sibling candidate.
C5_IfElseStartsAtDestination ==
  [][Detecting /\ ScenarioB(offset) /\ StrictlyInside(offset) =>
       LET d == get_target(offset)
           j == prev(d)
           end == restrict_to_parent(get_target(j), Parent(self.structs, offset))
           both == <<IfThen(offset + 3, j), IfElse(d, end)>>
       IN /\ Appended \in {<<>>, both}
          /\ Siblings(offset) = <<>> => Appended = both]_vars

\* The detection pass registered an if-then and an if-else region for an
\* if/else whose else part is not empty.
C5_Witness ==
  /\ pc = "detect"
  /\ \E o \in InstrStarts :
       /\ o < offset
       /\ ScenarioB(o)
       /\ get_target(prev(get_target(o))) > get_target(o) + 1
       /\ \E k \in 2 .. Len(self.structs) - 1 :
            /\ self.structs[k] = IfThen(o + 3, prev(get_target(o)))
            /\ self.structs[k + 1].type = "if-else"
            /\ self.structs[k + 1].start = get_target(o)


\* Scenario C: SETUP_LOOP at t - 3; a POP_JUMP_IF_FALSE at o, after t, with a
\* forward destination d; the instruction before d is a JUMP_ABSOLUTE back to
\* t, the first instruction after the SETUP_LOOP.
ScenarioC(o) ==
  /\ At(code, o) = POP_JUMP_IF_FALSE
  /\ get_target(o) > o
  /\ At(code, prev(get_target(o))) = JUMP_ABSOLUTE
  /\ get_target(prev(get_target(o))) < o
  /\ get_target(prev(get_target(o))) >= 3
  /\ At(code, get_target(prev(get_target(o))) - 3) = SETUP_LOOP

\* The rewind of lines 526-529 applies to the loop of the jump at o: the
\* JUMP_ABSOLUTE before d was retained as a statement, the body is not empty
\* and the loop is not followed by another JUMP_ABSOLUTE and POP_BLOCK.
Rewound(o) == SkipTrailingJump(o, get_target(o)) # get_target(o)

ScenarioE(o) ==
  /\ At(code, o) = POP_JUMP_IF_FALSE
  /\ o + 3 \in InstrStarts
  /\ At(code, o + 3) = POP_JUMP_IF_FALSE
  /\ At(self.lines, o).l_no = At(self.lines, o + 3).l_no
  /\ get_target(o) = get_target(o + 3)

ScenarioD(o) ==
  /\ At(code, o) = POP_JUMP_IF_FALSE
  /\ At(code, prev(get_target(o))) = RETURN_VALUE

\* C8 as stated: in scenario D the step appends exactly one region, the
\* if-then region from o + 3 to d, and adds r to return_end_ifs.
C8_IfThenEndsAtReturn ==
  [][Detecting /\ ScenarioD(offset) =>
       /\ Appended = <<IfThen(offset + 3, get_target(offset))>>
       /\ prev(get_target(offset)) \in ReturnEndIfsAfter]_vars

\* C8 amended: in scenario D, with d not moved by clamping to the innermost
\* region around o, a jump with no sibling candidate gets exactly one region,
\* the if-then region from o + 3 to d, and r is added to return_end_ifs; a
\* jump with a sibling candidate is redirected to the last one, gets no
\* region, and return_end_ifs is left as it was.
C8_IfThenEndsAtReturnUnlessSibling ==
  [][Detecting /\ ScenarioD(offset) /\ Unclamped(offset) =>
       LET d == get_target(offset)
       IN /\ Siblings(offset) = <<>> =>
               /\ Appended = <<IfThen(offset + 3, d)>>
               /\ prev(d) \in ReturnEndIfsAfter
          /\ Siblings(offset) # <<>> =>
               /\ Appended = <<>>
               /\ ReturnEndIfsAfter = self.return_end_ifs
               /\ DictGet(FixedJumpsAfter, offset) = At(Siblings(offset), -1)]_vars

\* The detection pass registered the if-then region of a conditional return
\* and recorded the return.
C8_Witness ==
  /\ pc = "detect"
  /\ \E o \in InstrStarts :
       /\ o < offset
       /\ ScenarioD(o)
       /\ get_target(o) > o + 3
       /\ \E k \in DOMAIN self.structs :
            self.structs[k] = IfThen(o + 3, get_target(o))
       /\ prev(get_target(o)) \in self.return_end_ifs

Inside(a, b) == b.start <= a.start /\ a.end <= b.end

\* C9: during and after the detection pass every region of the list but the
\* first lies inside a region that precedes it in the list, and the first is
\* the root, which spans the whole buffer.
C9_RegionInsideEarlier ==
  pc \in {"detect", "done"} =>
    /\ self.structs[1] = RootStruct
    /\ \A k \in 2 .. Len(self.structs) :
         \E j \in 1 .. k - 1 : Inside(self.structs[k], self.structs[j])

\* The detection pass registered a region inside a region other than the
\* root, and an and/or region.
C9_Witness ==
  /\ pc = "detect"
  /\ \E k \in 3 .. Len(self.structs) :
       \E j \in 2 .. k - 1 : Inside(self.structs[k], self.structs[j])
  /\ \E k \in 2 .. Len(self.structs) : self.structs[k].type = "and/or"

\* C1: after tokenize(A) and tokenize(B) on one Scanner and tokenize(B) on a
\* fresh one, the two calls on B returned the same tokens and the two
\* Scanners hold the same tables (code, lines, prev_op, next_stmt, stmts,
\* structs, fixed_jumps, new_ifs, not_continue, return_end_ifs among them);
\* when A and B are the same unit, the first two calls returned the same
\* tokens.
C1_ReuseEqualsFresh ==
  pc = "done" /\ Len(calls) = 3 =>
    /\ returned[2] = returned[3]
    /\ scanners[1] = scanners[2]
    /\ calls[1].co = calls[2].co => returned[1] = returned[2]

\* The three calls are over; A is longer than B, has a new-if and regions
\* that B has not.
C1_Witness ==
  /\ pc = "done"
  /\ Len(calls) = 3
  /\ Len(calls[1].co.co_code) > Len(calls[2].co.co_code)
  /\ \E k \in DOMAIN returned[1] :
       ~IsReal(returned[1][k]) /\ ~IsComeFrom(returned[1][k])
  /\ \A k \in DOMAIN returned[2] : IsReal(returned[2][k])
  /\ Len(returned[1]) > Len(returned[2])
  /\ scanners[1].structs = <<RootStruct>>
  /\ returned[2] = returned[3]


(***************************************************************************)
(* Termination.  One thread runs a call to its end: a step that can be     *)
(* taken is taken.  A rewind loop of build_statement_indices that reaches  *)
(* an offset j with prev_op[j] = j and an opcode it rewinds over repeats   *)
(* the same iteration for ever; FindJumpTargets then leaves pc at "hang",  *)
(* from which no step is possible.                                         *)
(***************************************************************************)
\* One call, on the unit of one instruction of GenOps followed by
\* RETURN_VALUE.
LiveCall ==
  \E q \in [1 .. 1 -> GenInstrs(2)] :
    \E b \in GenBreaks(2) :
      /\ WellFormed(q \o <<<<RETURN_VALUE, 0>>>>)
      /\ calls = <<Call(1, Unit(q \o <<<<RETURN_VALUE, 0>>>>, b))>>

InitLive ==
  /\ LiveCall
  /\ cur = 1
  /\ scanners = [i \in Insts |-> Fresh]
  /\ pc = "tokenize"
  /\ offset = 0
  /\ targets = EmptyDict
  /\ returned = <<>>

SpecLive == InitLive /\ [][Next]_vars /\ WF_vars(Next)

\* C11 as stated: once tokenize reaches find_jump_targets, building the
\* statement index (build_statement_indices) ends and the detection pass
\* starts, whatever the well-formed buffer.
C11_StatementIndexTerminates == (pc = "find_jump_targets") ~> (pc = "detect")

(***************************************************************************)
(* Chains of jumps: the units on which a conditional jump is processed     *)
(* inside an and/or region.                                                *)
(***************************************************************************)
ChainLen == 3

ChainOps == {POP_TOP, JUMP_ABSOLUTE, POP_JUMP_IF_FALSE, POP_JUMP_IF_TRUE}

ChainInstrs ==
  {<<op, 0>> : op \in ChainOps \ JumpOps}
    \cup {<<op, t>> : op \in ChainOps \cap JumpOps, t \in 1 .. ChainLen + 1}

\* One call, on the unit of ChainLen instructions of ChainOps followed by
\* RETURN_VALUE, on one source line or on two.
ChainCall ==
  \E q \in [1 .. ChainLen -> ChainInstrs] :
    \E b \in GenBreaks(ChainLen) :
      calls = <<Call(1, Unit(q \o <<<<RETURN_VALUE, 0>>>>, b))>>

InitChain ==
  /\ ChainCall
  /\ cur = 1
  /\ scanners = [i \in Insts |-> Fresh]
  /\ pc = "tokenize"
  /\ offset = 0
  /\ targets = EmptyDict
  /\ returned = <<>>

SpecChain == InitChain /\ [][Next]_vars

\* The innermost region around the instruction the detection pass is at.
ParentNow == Parent(self.structs, offset)

\* The destination the jump at the current offset has once the step is
\* done: its fixed_jumps entry if there is one, else its literal destination.
EffectiveTarget ==
  IF DictGet(FixedJumpsAfter, offset) # None
    THEN DictGet(FixedJumpsAfter, offset)
    ELSE get_target(offset)

\* C12 as stated: a POP_JUMP_IF_FALSE / POP_JUMP_IF_TRUE processed inside an
\* and/or region (s, e) ends the detection step with an effective
\* destination in (s, e].
C12_ShortCircuitStaysInside ==
  [][(/\ Detecting
      /\ At(code, offset) \in {POP_JUMP_IF_FALSE, POP_JUMP_IF_TRUE}
      /\ ParentNow.type = "and/or")
     => /\ ParentNow.start < EffectiveTarget
        /\ EffectiveTarget <= ParentNow.end]_vars

(***************************************************************************)
(* Innermost-parent selection.                                             *)
(***************************************************************************)
Contains(struct, off) == struct.start <= off /\ off < struct.end

StrictlyWithin(inner, outer) ==
  /\ inner.start >= outer.start
  /\ inner.end <= outer.end
  /\ inner.start # outer.start \/ inner.end # outer.end

\* The region lists that hold the root first and then the regions appended
\* to structs in any order.
Reorderings(structs) ==
  {<<structs[1]>> \o [k \in 1 .. Len(structs) - 1 |-> structs[f[k] + 1]] :
     f \in Permutations(1 .. Len(structs) - 1)}

\* The parent picked in structs for off is the root or contains off, and no
\* region of structs that contains off is strictly within it.
InnermostAt(structs, off) ==
  LET parent == Parent(structs, off)
  IN /\ parent = structs[1] \/ Contains(parent, off)
     /\ \A k \in DOMAIN structs :
          Contains(structs[k], off) => ~StrictlyWithin(structs[k], parent)

\* C13: throughout the detection pass, whatever the offset and whatever the
\* order in which the regions of the list were appended, the parent picked
\* by detect_structure is the root or contains the offset, and no region of
\* the list that contains the offset is strictly contained in it.
C13_InnermostParent ==
  pc = "detect" =>
    \A structs \in Reorderings(self.structs) :
      \A off \in 0 .. codelen - 1 : InnermostAt(structs, off)

\* Two nested regions appended around an offset, the inner one picked.
C13_Witness ==
  /\ pc = "detect"
  /\ \E i, j \in 2 .. Len(self.structs) :
       \E off \in 0 .. codelen - 1 :
         /\ Contains(self.structs[i], off)
         /\ StrictlyWithin(self.structs[i], self.structs[j])
         /\ Parent(self.structs, off) = self.structs[i]

(***************************************************************************)
(* The same-line rule of the statement filter.                             *)
(***************************************************************************)
\* The JUMP_ABSOLUTE candidates of the filter that do not jump forward, were
\* not found by the sequence search and do not rewind to a LIST_APPEND.
BackwardJumpCandidates ==
  {o \in InstrStarts :
     /\ At(code, o) = JUMP_ABSOLUTE
     /\ o \notin SequenceStmts
     /\ get_target(o) <= o
     /\ Rewind(prev(o), {JUMP_ABSOLUTE}) # None
     /\ At(code, Rewind(prev(o), {JUMP_ABSOLUTE})) # LIST_APPEND}

\* The statements retained before o.
RetainedBefore(o) == {s \in self.stmts : s < o}

\* C14 as stated: once the statement index is built, a backward
\* JUMP_ABSOLUTE candidate that is neither a tail-sequence detection nor a
\* rewind to a list-append is missing from stmts only when a statement was
\* retained before it and the last such statement is on its source line;
\* with no statement retained before it, it is retained.
C14_SameLineNeedsRetainedStatement ==
  pc = "detect" =>
    \A o \in BackwardJumpCandidates :
      /\ o \notin self.stmts =>
           /\ RetainedBefore(o) # {}
           /\ LET last == CHOOSE s \in RetainedBefore(o) :
                            \A t \in RetainedBefore(o) : t <= s
              IN At(self.lines, last).l_no = At(self.lines, o).l_no
      /\ RetainedBefore(o) = {} => o \in self.stmts

(***************************************************************************)
(* Well-formed regions and chained fixes.                                  *)
(***************************************************************************)
\* The detection step at the current offset takes the chained-conditional
\* rule: a POP_JUMP_IF jump that the and/or clamp lets through and whose
\* destination, further on, follows another conditional jump.
ChainedRule ==
  /\ At(code, offset) \in {POP_JUMP_IF_FALSE, POP_JUMP_IF_TRUE}
  /\ ~(/\ get_target(offset) # restrict_to_parent(get_target(offset), ParentNow)
       /\ ParentNow.type = "and/or")
  /\ At(code, prev(get_target(offset))) \in CondJumps
  /\ get_target(offset) > offset

\* C15 as stated: every region a detection step appends has start <= end,
\* and a jump the chained-conditional rule fixes is fixed strictly forward
\* of its own offset.
C15_RegionsAndChainedFixesWellFormed ==
  [][Detecting =>
       /\ \A k \in DOMAIN Appended : Appended[k].start <= Appended[k].end
       /\ ChainedRule => DictGet(FixedJumpsAfter, offset) > offset]_vars

====
